---------------------------- MODULE Spec2Model ----------------------------
(***************************************************************************)
(* A model of src/src/channel.rs: an unbounded FIFO channel made of a      *)
(* Mutex<VecDeque<T>> and a Condvar shared (through an Arc) by one Sender  *)
(* and one Receiver handle.                                                *)
(*                                                                         *)
(* Shared state lives in a heap of Inner blocks, addressed 1..Len(queue). *)
(* A handle pair is identified by the index k of the channel() call that   *)
(* returned it; sender[k].inner and receiver[k].inner are the addresses    *)
(* the two Arcs point to.  Each handle is driven by one thread, S(k) for   *)
(* the Sender and R(k) for the Receiver, whose position in send / receive  *)
(* is spc[k] / rpc[k].                                                     *)
(***************************************************************************)
EXTENDS Naturals, Sequences, FiniteSets, TLC

\* ------------------------------------------------------------------ bounds
\* One channel (Spec, FairSpec, PoisonSpec): the calls of send and of receive
\* issued in a run, and the spurious wakes of the condition variable.
MaxSends == 3
MaxRecvs == 3
MaxSpurious == 2
\* Several channels (ChanSpec): the calls of channel(), and the calls of send,
\* of receive and the spurious wakes over all the channels together.
MaxChans == 2
ChanMaxSends == 2
ChanMaxRecvs == 2
ChanMaxSpurious == 1

\* The multi-producer extension: Sender handles on the one channel, and the
\* calls and spurious wakes of a run that has them.
MaxSenders == 2
MultiMaxSends == 4
MultiMaxRecvs == 3
MultiMaxSpurious == 1
\* The values of T that are sent.
Values == {1, 2}

VARIABLES
    queue,      \* Inner.queue, the protected VecDeque: address -> Seq(Values)
    lock,       \* Inner.queue, the Mutex: address -> set of threads holding it
    poisoned,   \* Inner.queue, the Mutex's poison flag: address -> BOOLEAN
    available,  \* Inner.available, the Condvar: address -> set of threads asleep on it
    sender,     \* the Sender handles:   k -> [inner |-> address]
    receiver,   \* the Receiver handles: k -> [inner |-> address]
    spc,        \* position of thread S(k) in Sender::send
    sval,       \* the argument t of the send in progress
    rpc,        \* position of thread R(k) in Receiver::receive
    sent,       \* history: the values pushed through sender k, in order
    received,   \* history: the values returned through receiver k, in order
    rcall,      \* history: what held when the latest receive was issued: the queue
                \* empty, the values sent, no send in progress
    nsend,      \* calls of send issued
    nrecv,      \* calls of receive issued
    nspurious,  \* spurious wakes so far
    budget,     \* the calls and spurious wakes this run may hold
    strong,     \* the Arc's strong count: address -> handles alive on the Inner
    dropped     \* history: the handles destroyed, each with the calls issued
                \* and the spurious wakes seen when it was destroyed

vars == <<queue, lock, poisoned, available, sender, receiver, spc, sval, rpc,
          sent, received, rcall, nsend, nrecv, nspurious, budget, strong, dropped>>

shared == <<queue, lock, poisoned, available>>
handles == <<sender, receiver>>
arcs == <<strong, dropped>>

\* The threads driving handle pair k.
S(k) == <<"send", k>>
R(k) == <<"recv", k>>

\* The handle pairs that exist.
Pairs == DOMAIN sender

\* The Receiver handles that exist.
Receivers == DOMAIN receiver

\* Handle h (named by the thread that drives it) has been destroyed.
Dropped(h) == \E d \in dropped : d.handle = h

\* ----------------------------------------------------------- construction
\* Inner { queue : Mutex::new(Vec::new()), .. }: an empty queue behind a
\* free, unpoisoned mutex, and a condition variable nobody sleeps on.
NewQueue == << >>
NewLock == {}
NewPoisoned == FALSE
NewAvailable == {}

\* Arc::new(inner), cloned into the Sender and into the Receiver, and
\* sharedInner gone at the end of channel(): two owners.
NewStrong == 2

\* Arc::new(inner): the address of the block just allocated.
ArcNew == Len(queue) + 1

\* Mutant of ReceiverOf: every Receiver is built on the first Inner allocated.
ReceiverOfFirst(a) == [inner |-> 1]

\* Receiver { inner : sharedInner.clone() }
ReceiverOf(a) == [inner |-> a]

\* Sender { inner : sharedInner.clone() }
SenderOf(a) == [inner |-> a]

\* channel(): allocate one Inner, return a Sender and a Receiver on it.
Channel ==
    /\ Len(sender) < MaxChans
    /\ LET a == ArcNew IN
        /\ queue' = Append(queue, NewQueue)
        /\ lock' = Append(lock, NewLock)
        /\ poisoned' = Append(poisoned, NewPoisoned)
        /\ available' = Append(available, NewAvailable)
        /\ sender' = Append(sender, SenderOf(a))
        /\ receiver' = Append(receiver, ReceiverOf(a))
    /\ spc' = Append(spc, "idle")
    /\ sval' = Append(sval, 0)
    /\ rpc' = Append(rpc, "idle")
    /\ sent' = Append(sent, << >>)
    /\ received' = Append(received, << >>)
    /\ rcall' = Append(rcall, [empty |-> FALSE, sent |-> 0, quiet |-> FALSE])
    /\ strong' = Append(strong, NewStrong)
    /\ UNCHANGED <<nsend, nrecv, nspurious, budget, dropped>>

\* Before any channel() call.
InitEmpty ==
    /\ queue = << >> /\ lock = << >> /\ poisoned = << >> /\ available = << >>
    /\ sender = << >> /\ receiver = << >>
    /\ spc = << >> /\ sval = << >> /\ rpc = << >>
    /\ sent = << >> /\ received = << >> /\ rcall = << >>
    /\ strong = << >> /\ dropped = {}
    /\ nsend = 0 /\ nrecv = 0 /\ nspurious = 0
    /\ budget = [sends |-> ChanMaxSends, recvs |-> ChanMaxRecvs,
                 spurious |-> ChanMaxSpurious]

\* After one channel() call.
Init ==
    /\ queue = <<NewQueue>>
    /\ lock = <<NewLock>>
    /\ poisoned = <<NewPoisoned>>
    /\ available = <<NewAvailable>>
    /\ sender = <<SenderOf(1)>>
    /\ receiver = <<ReceiverOf(1)>>
    /\ spc = <<"idle">> /\ sval = <<0>> /\ rpc = <<"idle">>
    /\ sent = << << >> >> /\ received = << << >> >>
    /\ rcall = <<[empty |-> FALSE, sent |-> 0, quiet |-> FALSE]>>
    /\ strong = <<NewStrong>> /\ dropped = {}
    /\ nsend = 0 /\ nrecv = 0 /\ nspurious = 0
    /\ budget = [sends |-> MaxSends, recvs |-> MaxRecvs, spurious |-> MaxSpurious]

\* ------------------------------------------------------------ Sender::send
\* The caller issues send(t).
SendCall(k, t) ==
    /\ ~Dropped(S(k))
    /\ spc[k] \in {"idle", "aborted"}
    /\ nsend < budget.sends
    /\ spc' = [spc EXCEPT ![k] = "lock"]
    /\ sval' = [sval EXCEPT ![k] = t]
    /\ nsend' = nsend + 1
    /\ UNCHANGED <<shared, handles, rpc, sent, received, rcall, nrecv, nspurious>>
    /\ UNCHANGED <<budget, arcs>>

\* Mutant of SendLock: the guard is taken without waiting for the mutex.
SendLockNoWait(k) ==
    LET a == sender[k].inner IN
    /\ spc[k] = "lock"
    /\ spc' = [spc EXCEPT ![k] = "push"]
    /\ lock' = [lock EXCEPT ![a] = @ \cup {S(k)}]
    /\ UNCHANGED <<queue, poisoned, available, handles, sval, rpc, sent, received,
                   rcall, nsend, nrecv, nspurious>>
    /\ UNCHANGED <<budget, arcs>>

\* Mutant of SendLock: a poisoned mutex is taken like a sound one.
SendLockIgnorePoison(k) ==
    LET a == sender[k].inner IN
    /\ spc[k] = "lock"
    /\ lock[a] = {}
    /\ spc' = [spc EXCEPT ![k] = "push"]
    /\ lock' = [lock EXCEPT ![a] = {S(k)}]
    /\ UNCHANGED <<queue, poisoned, available, handles, sval, rpc, sent, received,
                   rcall, nsend, nrecv, nspurious>>
    /\ UNCHANGED <<budget, arcs>>

\* self.inner.queue.lock().unwrap(): blocks until the mutex is free; on a
\* poisoned mutex lock() gives Err(guard), unwrap() panics and the guard
\* inside the error is dropped, which frees the mutex again.
SendLock(k) ==
    LET a == sender[k].inner IN
    /\ spc[k] = "lock"
    /\ lock[a] = {}
    /\ IF poisoned[a]
       THEN /\ spc' = [spc EXCEPT ![k] = "aborted"]
            /\ lock' = lock
       ELSE /\ spc' = [spc EXCEPT ![k] = "push"]
            /\ lock' = [lock EXCEPT ![a] = {S(k)}]
    /\ UNCHANGED <<queue, poisoned, available, handles, sval, rpc, sent, received,
                   rcall, nsend, nrecv, nspurious>>
    /\ UNCHANGED <<budget, arcs>>

\* Mutant of SendPush: a queue of capacity one; the push waits for room.
SendPushBounded(k) ==
    LET a == sender[k].inner IN
    /\ spc[k] = "push"
    /\ Len(queue[a]) < 1
    /\ queue' = [queue EXCEPT ![a] = Append(@, sval[k])]
    /\ sent' = [sent EXCEPT ![k] = Append(@, sval[k])]
    /\ spc' = [spc EXCEPT ![k] = "drop"]
    /\ UNCHANGED <<lock, poisoned, available, handles, sval, rpc, received, rcall,
                   nsend, nrecv, nspurious>>
    /\ UNCHANGED <<budget, arcs>>

\* Mutant of SendPush: push_front for push_back.
SendPushFront(k) ==
    LET a == sender[k].inner IN
    /\ spc[k] = "push"
    /\ queue' = [queue EXCEPT ![a] = <<sval[k]>> \o @]
    /\ sent' = [sent EXCEPT ![k] = Append(@, sval[k])]
    /\ spc' = [spc EXCEPT ![k] = "drop"]
    /\ UNCHANGED <<lock, poisoned, available, handles, sval, rpc, received, rcall,
                   nsend, nrecv, nspurious>>
    /\ UNCHANGED <<budget, arcs>>

\* queue.push_back(t)
SendPush(k) ==
    LET a == sender[k].inner IN
    /\ spc[k] = "push"
    /\ queue' = [queue EXCEPT ![a] = Append(@, sval[k])]
    /\ sent' = [sent EXCEPT ![k] = Append(@, sval[k])]
    /\ spc' = [spc EXCEPT ![k] = "drop"]
    /\ UNCHANGED <<lock, poisoned, available, handles, sval, rpc, received, rcall,
                   nsend, nrecv, nspurious>>
    /\ UNCHANGED <<budget, arcs>>

\* Mutant of SendDrop: the guard is kept; send goes on to signal holding it.
SendDropLate(k) ==
    /\ spc[k] = "drop"
    /\ spc' = [spc EXCEPT ![k] = "notify"]
    /\ UNCHANGED <<shared, handles, sval, rpc, sent, received, rcall,
                   nsend, nrecv, nspurious>>
    /\ UNCHANGED <<budget, arcs>>

\* drop(queue): release the mutex.
SendDrop(k) ==
    LET a == sender[k].inner IN
    /\ spc[k] = "drop"
    /\ lock' = [lock EXCEPT ![a] = @ \ {S(k)}]
    /\ spc' = [spc EXCEPT ![k] = "notify"]
    /\ UNCHANGED <<queue, poisoned, available, handles, sval, rpc, sent, received,
                   rcall, nsend, nrecv, nspurious>>
    /\ UNCHANGED <<budget, arcs>>

\* Mutant of SendNotify: send returns without signalling.
SendNotifyNone(k) ==
    /\ spc[k] = "notify"
    /\ spc' = [spc EXCEPT ![k] = "idle"]
    /\ UNCHANGED <<shared, handles, sval, rpc, sent, received, rcall,
                   nsend, nrecv, nspurious>>
    /\ UNCHANGED <<budget, arcs>>

\* self.inner.available.notify_one(): wake one thread asleep on the condition
\* variable, if there is one; the signal is not remembered otherwise.  Then
\* send returns.
SendNotify(k) ==
    LET a == sender[k].inner IN
    /\ spc[k] = "notify"
    /\ IF available[a] = {}
       THEN available' = available
       ELSE \E w \in available[a] : available' = [available EXCEPT ![a] = @ \ {w}]
    /\ spc' = [spc EXCEPT ![k] = "idle"]
    /\ UNCHANGED <<queue, lock, poisoned, handles, sval, rpc, sent, received, rcall,
                   nsend, nrecv, nspurious>>
    /\ UNCHANGED <<budget, arcs>>

\* A panic of the sending thread while it holds the guard (push_back fails to
\* grow the buffer): unwinding drops the guard, which marks the mutex
\* poisoned and frees it.  Nothing was appended.
SendPanic(k) ==
    LET a == sender[k].inner IN
    /\ spc[k] = "push"
    /\ poisoned' = [poisoned EXCEPT ![a] = TRUE]
    /\ lock' = [lock EXCEPT ![a] = @ \ {S(k)}]
    /\ spc' = [spc EXCEPT ![k] = "aborted"]
    /\ UNCHANGED <<queue, available, handles, sval, rpc, sent, received, rcall,
                   nsend, nrecv, nspurious>>
    /\ UNCHANGED <<budget, arcs>>

\* ------------------------------------------------------- Receiver::receive
\* The caller issues receive().
RecvCall(k) ==
    LET a == receiver[k].inner IN
    /\ ~Dropped(R(k))
    /\ rpc[k] \in {"idle", "aborted"}
    /\ nrecv < budget.recvs
    /\ rpc' = [rpc EXCEPT ![k] = "lock"]
    /\ rcall' = [rcall EXCEPT ![k] = [empty |-> queue[a] = << >>,
                                      sent |-> Len(sent[k]),
                                      quiet |-> spc[k] = "idle"]]
    /\ nrecv' = nrecv + 1
    /\ UNCHANGED <<shared, handles, spc, sval, sent, received, nsend, nspurious>>
    /\ UNCHANGED <<budget, arcs>>

\* Mutant of RecvLock: receive goes to the wait without looking at the queue.
RecvLockWaitFirst(k) ==
    LET a == receiver[k].inner IN
    /\ rpc[k] = "lock"
    /\ lock[a] = {}
    /\ rpc' = [rpc EXCEPT ![k] = "wait"]
    /\ lock' = [lock EXCEPT ![a] = {R(k)}]
    /\ UNCHANGED <<queue, poisoned, available, handles, spc, sval, sent, received,
                   rcall, nsend, nrecv, nspurious>>
    /\ UNCHANGED <<budget, arcs>>

\* let mut queue = self.inner.queue.lock().unwrap();
RecvLock(k) ==
    LET a == receiver[k].inner IN
    /\ rpc[k] = "lock"
    /\ lock[a] = {}
    /\ IF poisoned[a]
       THEN /\ rpc' = [rpc EXCEPT ![k] = "aborted"]
            /\ lock' = lock
       ELSE /\ rpc' = [rpc EXCEPT ![k] = "check"]
            /\ lock' = [lock EXCEPT ![a] = {R(k)}]
    /\ UNCHANGED <<queue, poisoned, available, handles, spc, sval, sent, received,
                   rcall, nsend, nrecv, nspurious>>
    /\ UNCHANGED <<budget, arcs>>

\* Mutant of RecvCheck: the newest element is popped (a Vec used as a stack).
RecvCheckLifo(k) ==
    LET a == receiver[k].inner IN
    /\ rpc[k] = "check"
    /\ IF queue[a] # << >>
       THEN /\ queue' = [queue EXCEPT ![a] = SubSeq(@, 1, Len(@) - 1)]
            /\ received' = [received EXCEPT ![k] = Append(@, queue[a][Len(queue[a])])]
            /\ lock' = [lock EXCEPT ![a] = @ \ {R(k)}]
            /\ rpc' = [rpc EXCEPT ![k] = "idle"]
       ELSE /\ rpc' = [rpc EXCEPT ![k] = "wait"]
            /\ UNCHANGED <<queue, received, lock>>
    /\ UNCHANGED <<poisoned, available, handles, spc, sval, sent, rcall,
                   nsend, nrecv, nspurious>>
    /\ UNCHANGED <<budget, arcs>>

\* Mutant of RecvCheck: the front element is returned and left in the queue.
RecvCheckPeek(k) ==
    LET a == receiver[k].inner IN
    /\ rpc[k] = "check"
    /\ IF queue[a] # << >>
       THEN /\ received' = [received EXCEPT ![k] = Append(@, Head(queue[a]))]
            /\ lock' = [lock EXCEPT ![a] = @ \ {R(k)}]
            /\ rpc' = [rpc EXCEPT ![k] = "idle"]
            /\ queue' = queue
       ELSE /\ rpc' = [rpc EXCEPT ![k] = "wait"]
            /\ UNCHANGED <<queue, received, lock>>
    /\ UNCHANGED <<poisoned, available, handles, spc, sval, sent, rcall,
                   nsend, nrecv, nspurious>>
    /\ UNCHANGED <<budget, arcs>>

\* Mutant of RecvCheck: on an empty queue receive returns a default value
\* instead of waiting.
RecvCheckNoBlock(k) ==
    LET a == receiver[k].inner IN
    /\ rpc[k] = "check"
    /\ IF queue[a] # << >>
       THEN /\ queue' = [queue EXCEPT ![a] = Tail(@)]
            /\ received' = [received EXCEPT ![k] = Append(@, Head(queue[a]))]
       ELSE /\ queue' = queue
            /\ received' = [received EXCEPT ![k] = Append(@, 0)]
    /\ lock' = [lock EXCEPT ![a] = @ \ {R(k)}]
    /\ rpc' = [rpc EXCEPT ![k] = "idle"]
    /\ UNCHANGED <<poisoned, available, handles, spc, sval, sent, rcall,
                   nsend, nrecv, nspurious>>
    /\ UNCHANGED <<budget, arcs>>

\* Mutant of RecvCheck: the value is returned with the guard leaked, the
\* mutex still taken.
RecvCheckKeepLock(k) ==
    LET a == receiver[k].inner IN
    /\ rpc[k] = "check"
    /\ IF queue[a] # << >>
       THEN /\ queue' = [queue EXCEPT ![a] = Tail(@)]
            /\ received' = [received EXCEPT ![k] = Append(@, Head(queue[a]))]
            /\ rpc' = [rpc EXCEPT ![k] = "idle"]
       ELSE /\ rpc' = [rpc EXCEPT ![k] = "wait"]
            /\ UNCHANGED <<queue, received>>
    /\ UNCHANGED <<lock, poisoned, available, handles, spc, sval, sent, rcall,
                   nsend, nrecv, nspurious>>
    /\ UNCHANGED <<budget, arcs>>

\* Mutant of RecvCheck: disconnect detection; on an empty queue whose only
\* owner left is the Receiver, receive gives up and returns without a value.
RecvCheckDisconnect(k) ==
    LET a == receiver[k].inner IN
    /\ rpc[k] = "check"
    /\ IF queue[a] # << >>
       THEN /\ queue' = [queue EXCEPT ![a] = Tail(@)]
            /\ received' = [received EXCEPT ![k] = Append(@, Head(queue[a]))]
            /\ lock' = [lock EXCEPT ![a] = @ \ {R(k)}]
            /\ rpc' = [rpc EXCEPT ![k] = "idle"]
       ELSE IF strong[a] = 1
       THEN /\ lock' = [lock EXCEPT ![a] = @ \ {R(k)}]
            /\ rpc' = [rpc EXCEPT ![k] = "idle"]
            /\ UNCHANGED <<queue, received>>
       ELSE /\ rpc' = [rpc EXCEPT ![k] = "wait"]
            /\ UNCHANGED <<queue, received, lock>>
    /\ UNCHANGED <<poisoned, available, handles, spc, sval, sent, rcall,
                   nsend, nrecv, nspurious>>
    /\ UNCHANGED <<budget, arcs>>


\* match queue.pop_front() { Some(t) => return t, None => .. }: a value is
\* removed from the front and returned, the guard dropped on return; on an
\* empty queue the thread goes on to the wait, still holding the guard.
RecvCheck(k) ==
    LET a == receiver[k].inner IN
    /\ rpc[k] = "check"
    /\ IF queue[a] # << >>
       THEN /\ queue' = [queue EXCEPT ![a] = Tail(@)]
            /\ received' = [received EXCEPT ![k] = Append(@, Head(queue[a]))]
            /\ lock' = [lock EXCEPT ![a] = @ \ {R(k)}]
            /\ rpc' = [rpc EXCEPT ![k] = "idle"]
       ELSE /\ rpc' = [rpc EXCEPT ![k] = "wait"]
            /\ UNCHANGED <<queue, received, lock>>
    /\ UNCHANGED <<poisoned, available, handles, spc, sval, sent, rcall,
                   nsend, nrecv, nspurious>>
    /\ UNCHANGED <<budget, arcs>>

\* Mutant of RecvWait: the mutex is released in one step and the thread put
\* to sleep in the next.
RecvWaitTwoSteps(k) ==
    LET a == receiver[k].inner IN
    /\ rpc[k] = "wait"
    /\ IF R(k) \in lock[a]
       THEN /\ lock' = [lock EXCEPT ![a] = @ \ {R(k)}]
            /\ UNCHANGED <<available, rpc>>
       ELSE /\ available' = [available EXCEPT ![a] = @ \cup {R(k)}]
            /\ rpc' = [rpc EXCEPT ![k] = "waiting"]
            /\ lock' = lock
    /\ UNCHANGED <<queue, poisoned, handles, spc, sval, sent, received, rcall,
                   nsend, nrecv, nspurious>>
    /\ UNCHANGED <<budget, arcs>>

\* self.inner.available.wait(queue), first half: in one step the mutex is
\* released and the thread is put to sleep on the condition variable.
RecvWait(k) ==
    LET a == receiver[k].inner IN
    /\ rpc[k] = "wait"
    /\ lock' = [lock EXCEPT ![a] = @ \ {R(k)}]
    /\ available' = [available EXCEPT ![a] = @ \cup {R(k)}]
    /\ rpc' = [rpc EXCEPT ![k] = "waiting"]
    /\ UNCHANGED <<queue, poisoned, handles, spc, sval, sent, received, rcall,
                   nsend, nrecv, nspurious>>
    /\ UNCHANGED <<budget, arcs>>

\* Condvar::wait may wake with no notify_one.
SpuriousWake(k) ==
    LET a == receiver[k].inner IN
    /\ rpc[k] = "waiting"
    /\ R(k) \in available[a]
    /\ nspurious < budget.spurious
    /\ available' = [available EXCEPT ![a] = @ \ {R(k)}]
    /\ nspurious' = nspurious + 1
    /\ UNCHANGED <<queue, lock, poisoned, handles, spc, sval, rpc, sent, received,
                   rcall, nsend, nrecv>>
    /\ UNCHANGED <<budget, arcs>>

\* Mutant of RecvReacquire: an `if` for the `loop`; the woken thread takes the
\* mutex and returns what pop_front gives, a default value when it gives none.
RecvReacquireNoRecheck(k) ==
    LET a == receiver[k].inner IN
    /\ rpc[k] = "waiting"
    /\ R(k) \notin available[a]
    /\ lock[a] = {}
    /\ IF queue[a] # << >>
       THEN /\ queue' = [queue EXCEPT ![a] = Tail(@)]
            /\ received' = [received EXCEPT ![k] = Append(@, Head(queue[a]))]
       ELSE /\ queue' = queue
            /\ received' = [received EXCEPT ![k] = Append(@, 0)]
    /\ rpc' = [rpc EXCEPT ![k] = "idle"]
    /\ UNCHANGED <<lock, poisoned, available, handles, spc, sval, sent, rcall,
                   nsend, nrecv, nspurious>>
    /\ UNCHANGED <<budget, arcs>>

\* Mutant of RecvReacquire: a woken thread that finds the mutex taken goes
\* back to sleep on the condition variable instead of waiting for the mutex.
RecvReacquireOrSleep(k) ==
    LET a == receiver[k].inner IN
    /\ rpc[k] = "waiting"
    /\ R(k) \notin available[a]
    /\ IF lock[a] = {}
       THEN /\ rpc' = [rpc EXCEPT ![k] = "check"]
            /\ lock' = [lock EXCEPT ![a] = {R(k)}]
            /\ available' = available
       ELSE /\ available' = [available EXCEPT ![a] = @ \cup {R(k)}]
            /\ UNCHANGED <<rpc, lock>>
    /\ UNCHANGED <<queue, poisoned, handles, spc, sval, sent, received,
                   rcall, nsend, nrecv, nspurious>>
    /\ UNCHANGED <<budget, arcs>>

\* wait(queue).unwrap(), second half: once woken the thread takes the mutex
\* again and goes back to the match; on a poisoned mutex wait gives Err(guard),
\* unwrap() panics and the guard is dropped.
RecvReacquire(k) ==
    LET a == receiver[k].inner IN
    /\ rpc[k] = "waiting"
    /\ R(k) \notin available[a]
    /\ lock[a] = {}
    /\ IF poisoned[a]
       THEN /\ rpc' = [rpc EXCEPT ![k] = "aborted"]
            /\ lock' = lock
       ELSE /\ rpc' = [rpc EXCEPT ![k] = "check"]
            /\ lock' = [lock EXCEPT ![a] = {R(k)}]
    /\ UNCHANGED <<queue, poisoned, available, handles, spc, sval, sent, received,
                   rcall, nsend, nrecv, nspurious>>
    /\ UNCHANGED <<budget, arcs>>

\* --------------------------------------------------------- specifications
\* The steps of thread S(k) inside send, and of R(k) inside receive.
SenderStep(k) == SendLock(k) \/ SendPush(k) \/ SendDrop(k) \/ SendNotify(k)
ReceiverStep(k) == RecvLock(k) \/ RecvCheck(k) \/ RecvWait(k) \/ RecvReacquire(k)

Next ==
    \/ \E k \in Pairs, t \in Values : SendCall(k, t)
    \/ \E k \in Pairs : SendLock(k)
    \/ \E k \in Pairs : SendPush(k)
    \/ \E k \in Pairs : SendDrop(k)
    \/ \E k \in Pairs : SendNotify(k)
    \/ \E k \in Receivers : RecvCall(k)
    \/ \E k \in Receivers : RecvLock(k)
    \/ \E k \in Receivers : RecvCheck(k)
    \/ \E k \in Receivers : RecvWait(k)
    \/ \E k \in Receivers : SpuriousWake(k)
    \/ \E k \in Receivers : RecvReacquire(k)

\* One channel, one sending thread, one receiving thread.
Spec == Init /\ [][Next]_vars

\* A thread inside send or receive is scheduled again: each step it can take
\* is taken sooner or later.  The callers need not call, and the condition
\* variable need not wake spuriously.
Fairness ==
    \A k \in 1..MaxChans :
        /\ WF_vars(k \in Pairs /\ SenderStep(k))
        /\ WF_vars(k \in Pairs /\ ReceiverStep(k))

FairSpec == Init /\ [][Next]_vars /\ Fairness

\* Any number of channels, from none.
ChanNext == Channel \/ Next

ChanSpec == InitEmpty /\ [][ChanNext]_vars

\* One channel whose sending thread may panic while it holds the guard.
PoisonNext == (\E k \in Pairs : SendPanic(k)) \/ Next

PoisonSpec == Init /\ [][PoisonNext]_vars

\* ------------------------------------------- send signalling under the lock
\* The other order of lines 23 and 24: notify_one() first, with the guard
\* still held ...
SendNotifyHeld(k) ==
    LET a == sender[k].inner IN
    /\ spc[k] = "drop"
    /\ IF available[a] = {}
       THEN available' = available
       ELSE \E w \in available[a] : available' = [available EXCEPT ![a] = @ \ {w}]
    /\ spc' = [spc EXCEPT ![k] = "dropheld"]
    /\ UNCHANGED <<queue, lock, poisoned, handles, sval, rpc, sent, received, rcall,
                   nsend, nrecv, nspurious>>
    /\ UNCHANGED <<budget, arcs>>

\* ... then drop(queue), and send returns.
SendDropAfter(k) ==
    LET a == sender[k].inner IN
    /\ spc[k] = "dropheld"
    /\ lock' = [lock EXCEPT ![a] = @ \ {S(k)}]
    /\ spc' = [spc EXCEPT ![k] = "idle"]
    /\ UNCHANGED <<queue, poisoned, available, handles, sval, rpc, sent, received,
                   rcall, nsend, nrecv, nspurious>>
    /\ UNCHANGED <<budget, arcs>>

HeldSenderStep(k) ==
    SendLock(k) \/ SendPush(k) \/ SendNotifyHeld(k) \/ SendDropAfter(k)

HeldNext ==
    \/ \E k \in Pairs, t \in Values : SendCall(k, t)
    \/ \E k \in Pairs : SendLock(k)
    \/ \E k \in Pairs : SendPush(k)
    \/ \E k \in Pairs : SendNotifyHeld(k)
    \/ \E k \in Pairs : SendDropAfter(k)
    \/ \E k \in Receivers : RecvCall(k)
    \/ \E k \in Receivers : RecvLock(k)
    \/ \E k \in Receivers : RecvCheck(k)
    \/ \E k \in Receivers : RecvWait(k)
    \/ \E k \in Receivers : SpuriousWake(k)
    \/ \E k \in Receivers : RecvReacquire(k)

HeldFairness ==
    \A k \in 1..MaxChans :
        /\ WF_vars(k \in Pairs /\ HeldSenderStep(k))
        /\ WF_vars(k \in Pairs /\ ReceiverStep(k))

\* One channel whose send signals before it releases the lock.
HeldFairSpec == Init /\ [][HeldNext]_vars /\ HeldFairness


\* ------------------------------------------------- destroying the handles
\* Handle h on Inner a goes out of scope: its Arc is dropped, one owner
\* less; when the count reaches zero the Inner is deallocated, the queue
\* and what it holds with it.  Neither handle has a Drop of its own.
ArcDrop(h, a) ==
    /\ dropped' = dropped \cup {[handle |-> h, nsend |-> nsend, nrecv |-> nrecv,
                                 nspurious |-> nspurious]}
    /\ strong' = [strong EXCEPT ![a] = @ - 1]
    /\ queue' = IF strong[a] = 1 THEN [queue EXCEPT ![a] = << >>] ELSE queue

\* Mutant of SenderDrop: the Sender owns the queue; destroying it discards
\* what is queued.
SenderDropFrees(k) ==
    LET a == sender[k].inner IN
    /\ ~Dropped(S(k))
    /\ spc[k] \in {"idle", "aborted"}
    /\ dropped' = dropped \cup {[handle |-> S(k), nsend |-> nsend, nrecv |-> nrecv,
                                 nspurious |-> nspurious]}
    /\ strong' = [strong EXCEPT ![a] = @ - 1]
    /\ queue' = [queue EXCEPT ![a] = << >>]
    /\ UNCHANGED <<lock, poisoned, available, handles, spc, sval, rpc, sent,
                   received, rcall, nsend, nrecv, nspurious, budget>>

\* The Sender is destroyed.  send borrows the handle (&mut self), so no send
\* through it is in progress.
SenderDrop(k) ==
    LET a == sender[k].inner IN
    /\ ~Dropped(S(k))
    /\ spc[k] \in {"idle", "aborted"}
    /\ ArcDrop(S(k), a)
    /\ UNCHANGED <<lock, poisoned, available, handles, spc, sval, rpc, sent,
                   received, rcall, nsend, nrecv, nspurious, budget>>

\* The Receiver is destroyed; no receive through it is in progress.
ReceiverDrop(k) ==
    LET a == receiver[k].inner IN
    /\ ~Dropped(R(k))
    /\ rpc[k] \in {"idle", "aborted"}
    /\ ArcDrop(R(k), a)
    /\ UNCHANGED <<lock, poisoned, available, handles, spc, sval, rpc, sent,
                   received, rcall, nsend, nrecv, nspurious, budget>>

DropNext ==
    \/ \E k \in Pairs : SenderDrop(k)
    \/ \E k \in Receivers : ReceiverDrop(k)
    \/ \E k \in Pairs, t \in Values : SendCall(k, t)
    \/ \E k \in Pairs : SendLock(k)
    \/ \E k \in Pairs : SendPush(k)
    \/ \E k \in Pairs : SendDrop(k)
    \/ \E k \in Pairs : SendNotify(k)
    \/ \E k \in Receivers : RecvCall(k)
    \/ \E k \in Receivers : RecvLock(k)
    \/ \E k \in Receivers : RecvCheck(k)
    \/ \E k \in Receivers : RecvWait(k)
    \/ \E k \in Receivers : SpuriousWake(k)
    \/ \E k \in Receivers : RecvReacquire(k)

\* One channel whose handles may be destroyed between calls.
DropSpec == Init /\ [][DropNext]_vars


\* ------------------------------------------------ multi-producer extension
\* The extension the specification speaks of: a second Sender handle on the
\* same Inner (a clone of handle k: one more owner of the Arc), driven by its
\* own thread.  The source has no such operation; send and receive below
\* are the source's.
SenderClone(k) ==
    LET a == sender[k].inner IN
    /\ Len(sender) < MaxSenders
    /\ ~Dropped(S(k))
    /\ sender' = Append(sender, SenderOf(a))
    /\ strong' = [strong EXCEPT ![a] = @ + 1]
    /\ spc' = Append(spc, "idle")
    /\ sval' = Append(sval, 0)
    /\ sent' = Append(sent, << >>)
    /\ UNCHANGED <<shared, receiver, rpc, received, rcall, nsend, nrecv, nspurious,
                   budget, dropped>>

\* After one channel() call, for a run with several producers.
InitMulti ==
    /\ queue = <<NewQueue>>
    /\ lock = <<NewLock>>
    /\ poisoned = <<NewPoisoned>>
    /\ available = <<NewAvailable>>
    /\ sender = <<SenderOf(1)>>
    /\ receiver = <<ReceiverOf(1)>>
    /\ spc = <<"idle">> /\ sval = <<0>> /\ rpc = <<"idle">>
    /\ sent = << << >> >> /\ received = << << >> >>
    /\ rcall = <<[empty |-> FALSE, sent |-> 0, quiet |-> FALSE]>>
    /\ strong = <<NewStrong>> /\ dropped = {}
    /\ nsend = 0 /\ nrecv = 0 /\ nspurious = 0
    /\ budget = [sends |-> MultiMaxSends, recvs |-> MultiMaxRecvs,
                 spurious |-> MultiMaxSpurious]

\* The n-th value producer p sends: its own, told from everybody else's.
Tagged(p) == <<p, Len(sent[p]) + 1>>

MultiNext ==
    \/ \E k \in Pairs : SenderClone(k)
    \/ \E k \in Pairs : SendCall(k, Tagged(k))
    \/ \E k \in Pairs : SendLock(k)
    \/ \E k \in Pairs : SendPush(k)
    \/ \E k \in Pairs : SendDrop(k)
    \/ \E k \in Pairs : SendNotify(k)
    \/ \E k \in Receivers : RecvCall(k)
    \/ \E k \in Receivers : RecvLock(k)
    \/ \E k \in Receivers : RecvCheck(k)
    \/ \E k \in Receivers : RecvWait(k)
    \/ \E k \in Receivers : SpuriousWake(k)
    \/ \E k \in Receivers : RecvReacquire(k)

\* One channel, several sending threads, one receiving thread.
MultiSpec == InitMulti /\ [][MultiNext]_vars


\* ----------------------------------------------------------------- helpers
IsPrefix(s, t) == Len(s) <= Len(t) /\ \A i \in 1..Len(s) : s[i] = t[i]

Count(s, v) == Cardinality({i \in 1..Len(s) : s[i] = v})

Last(s) == s[Len(s)]

\* Thread R(k) is inside receive.
InReceive(k) == rpc[k] \in {"lock", "check", "wait", "waiting"}

\* Thread R(k) is asleep on the condition variable.
Asleep(k) == rpc[k] = "waiting" /\ R(k) \in available[receiver[k].inner]

\* ------------------------------------------------------------------ claims
\* C1 (FIFO order): through every handle pair the values returned by
\* successive receive calls are a prefix of the values passed to send, in
\* the same order.
FifoOrder == \A k \in Pairs : IsPrefix(received[k], sent[k])

\* Two different values were both appended before the second receive was
\* issued, and the receives returned them in the order sent.
FifoOrderWitness ==
    /\ sent[1] = <<1, 2>>
    /\ received[1] = <<1, 2>>
    /\ rcall[1].sent = 2

\* C2 (no loss, no duplication): of every value, the number of copies
\* appended by send equals the number of copies returned by receive plus the
\* number of copies in the queue.
NoLossNoDuplication ==
    \A k \in Pairs : \A v \in Values :
        Count(sent[k], v) = Count(received[k], v) + Count(queue[sender[k].inner], v)

\* The same value was sent twice; one copy has been received and one is
\* still queued.
NoLossNoDuplicationWitness ==
    /\ Count(sent[1], 1) = 2
    /\ Count(received[1], 1) = 1
    /\ Count(queue[1], 1) = 1

\* C3 (no lost wakeup): under fair scheduling a receive in progress while the
\* queue holds a value returns.
NoLostWakeup ==
    \A k \in 1..MaxChans :
        (k \in Pairs /\ InReceive(k) /\ queue[receiver[k].inner] # << >>)
            ~> (k \in Pairs /\ rpc[k] = "idle")

\* The receiver is asleep on the condition variable at the moment a send has
\* appended a value and not yet signalled.
NoLostWakeupWitness ==
    /\ Asleep(1)
    /\ queue[1] # << >>
    /\ spc[1] \in {"drop", "notify"}

\* C4 (blocking correctness): receive never returns more values than were
\* sent, and a receive issued on an empty queue that has returned did so
\* after a later send, with the value of the first send after its call.
BlockingCorrectness ==
    \A k \in Pairs :
        /\ Len(received[k]) <= Len(sent[k])
        /\ (rpc[k] = "idle" /\ rcall[k].empty /\ received[k] # << >>) =>
              /\ Len(sent[k]) > rcall[k].sent
              /\ Last(received[k]) = sent[k][rcall[k].sent + 1]

\* A receive issued on the queue emptied by an earlier receive has returned
\* the second value sent.
BlockingCorrectnessWitness ==
    /\ rpc[1] = "idle"
    /\ rcall[1].empty
    /\ rcall[1].sent = 1
    /\ received[1] = <<1, 2>>

\* C5 (spurious-wake resilience): a woken receiver takes the lock and checks
\* again; a check that finds the queue empty changes nothing and leads only
\* to the wait; receive returns only from the check, with the head of a
\* non-empty queue.
SpuriousWakeStep ==
    \A k \in Pairs :
        LET a == receiver[k].inner IN
        /\ (rpc[k] = "waiting" /\ rpc'[k] # "waiting") =>
              /\ rpc'[k] = "check"
              /\ lock'[a] = {R(k)}
              /\ queue' = queue /\ received' = received
        /\ (rpc[k] = "check" /\ queue[a] = << >> /\ rpc'[k] # "check") =>
              /\ rpc'[k] = "wait"
              /\ queue' = queue /\ received' = received
        /\ (rpc[k] = "wait" /\ rpc'[k] # "wait") =>
              /\ Asleep(k)'
              /\ queue' = queue /\ received' = received
        /\ received'[k] # received[k] =>
              /\ rpc[k] = "check" /\ rpc'[k] = "idle"
              /\ queue[a] # << >>
              /\ received'[k] = Append(received[k], Head(queue[a]))
              /\ queue'[a] = Tail(queue[a])

\* C5: every step of every behaviour is a SpuriousWakeStep.
SpuriousWakeResilience == [][SpuriousWakeStep]_vars

\* With nothing ever sent, the receiver woke spuriously twice and is asleep
\* again.
SpuriousWakeWitness ==
    /\ nspurious >= 2
    /\ nsend = 0
    /\ Asleep(1)
    /\ received[1] = << >>

\* C6 (mutual exclusion): at most one thread holds the lock; a thread about
\* to push, pop or test the queue holds it; a receiver inside the wait does
\* not.
MutualExclusion ==
    /\ \A a \in DOMAIN lock : Cardinality(lock[a]) <= 1
    /\ \A k \in Pairs :
        /\ spc[k] \in {"push", "drop"} <=> S(k) \in lock[sender[k].inner]
        /\ rpc[k] \in {"check", "wait"} <=> R(k) \in lock[receiver[k].inner]

MutualExclusionStep ==
    \A a \in DOMAIN queue :
        queue'[a] # queue[a] =>
            \/ \E k \in Pairs : sender[k].inner = a /\ lock[a] = {S(k)} /\ spc[k] = "push"
            \/ \E k \in Pairs : receiver[k].inner = a /\ lock[a] = {R(k)} /\ rpc[k] = "check"

\* C6: the lock is exclusive in every state and every queue update is its holder's.
MutualExclusionHolds == [](MutualExclusion) /\ [][MutualExclusionStep]_vars

\* The receiver holds the lock for its check while a send waits for it.
MutualExclusionWitness ==
    /\ rpc[1] = "check"
    /\ spc[1] = "lock"
    /\ queue[1] # << >>

\* C7 (send never blocks): every send issued has appended its value by the
\* time it signals, no sending thread is ever asleep on the condition
\* variable, and under fair scheduling every send returns.
SendAppended ==
    \A k \in Pairs :
        /\ S(k) \notin available[sender[k].inner]
        /\ spc[k] \in {"drop", "notify", "idle"} => Len(sent[k]) = nsend
        /\ spc[k] \in {"lock", "push"} => Len(sent[k]) + 1 = nsend

\* C7: each send appends once, never sleeps on the condition variable, and returns.
SendCompletes ==
    /\ []SendAppended
    /\ \A k \in 1..MaxChans : (k \in Pairs /\ spc[k] # "idle") ~> (k \in Pairs /\ spc[k] = "idle")

\* Sends have returned with two values queued and the receiver inside the
\* wait.
SendCompletesWitness ==
    /\ spc[1] = "idle"
    /\ Len(queue[1]) >= 2
    /\ rpc[1] = "waiting"

\* C8 (construction): every channel() call adds exactly one Sender and one
\* Receiver on one newly allocated Inner whose queue is empty, whose lock is
\* free and on whose condition variable nobody sleeps; the two handles of a
\* pair share their Inner with no other pair, so what a sender appended is
\* what its own receiver returned followed by what its own queue holds.
ChannelPairs ==
    /\ Len(sender) = Len(receiver)
    /\ Len(sender) = Len(queue)
    /\ \A k \in Pairs :
        /\ sender[k].inner \in DOMAIN queue
        /\ receiver[k].inner = sender[k].inner
        /\ \A j \in Pairs \ {k} : receiver[j].inner # sender[k].inner
        /\ sent[k] = received[k] \o queue[sender[k].inner]

ChannelStep ==
    Len(sender') # Len(sender) =>
        LET k == Len(sender') IN
        LET a == sender'[k].inner IN
        /\ Len(sender') = Len(sender) + 1
        /\ Len(receiver') = Len(receiver) + 1
        /\ Len(queue') = Len(queue) + 1
        /\ a \notin DOMAIN queue
        /\ queue'[a] = << >>
        /\ lock'[a] = {}
        /\ ~poisoned'[a]
        /\ available'[a] = {}

\* C8: the pairs are well formed in every state and every channel() step builds one.
ChannelConstruction == [](ChannelPairs) /\ [][ChannelStep]_vars

\* Two channels exist and each receiver has returned the value its own
\* sender was given.
ChannelConstructionWitness ==
    /\ Len(sender) = 2
    /\ sent[1] = <<1>> /\ received[1] = <<1>>
    /\ sent[2] = <<2>> /\ received[2] = <<2>>

\* C9 (poisoning is fatal): once the mutex is poisoned it stays poisoned;
\* every acquisition by send or receive, and the re-acquisition of a woken
\* receive, ends the operation aborted with the mutex left free; nothing is
\* appended, removed or returned; an aborted thread moves again only when
\* its caller issues a new call.
PoisonFatalStep ==
    \A k \in Pairs :
        LET a == sender[k].inner IN
        poisoned[a] =>
            /\ poisoned'[a]
            /\ lock[a] = {} /\ lock'[a] = {}
            /\ queue'[a] = queue[a]
            /\ sent'[k] = sent[k]
            /\ received'[k] = received[k]
            /\ (spc[k] = "lock" /\ spc'[k] # "lock") => spc'[k] = "aborted"
            /\ (rpc[k] = "lock" /\ rpc'[k] # "lock") => rpc'[k] = "aborted"
            /\ (rpc[k] = "waiting" /\ rpc'[k] # "waiting") => rpc'[k] = "aborted"
            /\ (spc[k] = "aborted" /\ spc'[k] # "aborted") =>
                  (spc'[k] = "lock" /\ nsend' = nsend + 1)
            /\ (rpc[k] = "aborted" /\ rpc'[k] # "aborted") =>
                  (rpc'[k] = "lock" /\ nrecv' = nrecv + 1)

\* C9: every step taken on a poisoned mutex is a PoisonFatalStep.
PoisonFatal == [][PoisonFatalStep]_vars

\* The first send panicked holding the guard while the receiver slept; the
\* receiver, woken spuriously, was aborted taking the mutex again, and a
\* second send was aborted too.
PoisonFatalWitness ==
    /\ poisoned[1]
    /\ nsend = 2 /\ spc[1] = "aborted"
    /\ nrecv = 1 /\ nspurious = 1 /\ rpc[1] = "aborted"
    /\ sent[1] = << >> /\ received[1] = << >>

\* C10 (atomic release-and-wait): a receiver that found the queue empty holds
\* the lock until the step that releases it, and that same step puts it to
\* sleep on the condition variable; it is never without the lock and not yet
\* asleep.
ObservedEmptyUnregistered(k) ==
    /\ rpc[k] = "wait"
    /\ R(k) \notin lock[receiver[k].inner]
    /\ R(k) \notin available[receiver[k].inner]

ReleaseAndWaitStep ==
    \A k \in Pairs :
        LET a == receiver[k].inner IN
        (rpc[k] = "wait" /\ R(k) \in lock[a] /\ R(k) \notin lock'[a]) =>
            (rpc'[k] = "waiting" /\ R(k) \in available'[a])

\* C10: the gap state is unreachable and the release step is the sleep step.
AtomicReleaseAndWait ==
    /\ [](\A k \in Pairs : ~ObservedEmptyUnregistered(k))
    /\ [][ReleaseAndWaitStep]_vars

\* The receiver is asleep, and a send that took the lock after it is about
\* to append.
AtomicReleaseAndWaitWitness ==
    /\ Asleep(1)
    /\ spc[1] = "push"
    /\ lock[1] = {S(1)}

\* C11 (ordering inside send), as amended: a send takes the lock, appends at
\* the tail while it holds it, releases it, and only then signals; at the
\* signal the sending thread does not hold the lock and its value has been
\* appended, though a receive may already have taken it out of the queue.
SendOrderState ==
    \A k \in Pairs :
        LET a == sender[k].inner IN
        /\ spc[k] \in {"lock", "notify", "idle"} => S(k) \notin lock[a]
        /\ spc[k] \in {"push", "drop"} => lock[a] = {S(k)}
        /\ spc[k] \in {"drop", "notify"} =>
              (sent[k] # << >> /\ Last(sent[k]) = sval[k])

SendOrderStep ==
    \A k \in Pairs :
        LET a == sender[k].inner IN
        spc'[k] # spc[k] =>
            \/ spc[k] = "idle" /\ spc'[k] = "lock"
            \/ /\ spc[k] = "lock" /\ spc'[k] = "push"
               /\ lock'[a] = {S(k)} /\ queue' = queue /\ available' = available
            \/ /\ spc[k] = "push" /\ spc'[k] = "drop"
               /\ queue'[a] = Append(queue[a], sval[k])
               /\ lock' = lock /\ available' = available
            \/ /\ spc[k] = "drop" /\ spc'[k] = "notify"
               /\ lock'[a] = {} /\ queue' = queue /\ available' = available
            \/ /\ spc[k] = "notify" /\ spc'[k] = "idle"
               /\ lock' = lock /\ queue' = queue

\* C11: the positions of send hold what the order implies and follow it.
SendOrder == [](SendOrderState) /\ [][SendOrderStep]_vars

\* C11 as stated: at the signal the sender's value is in the queue.
SendValueQueuedAtSignal ==
    \A k \in Pairs :
        LET a == sender[k].inner IN
        spc[k] = "notify" =>
            /\ S(k) \notin lock[a]
            /\ \E i \in 1..Len(queue[a]) : queue[a][i] = sval[k]

\* A send is about to signal, the lock released, its value the last queued.
SendOrderWitness ==
    /\ spc[1] = "notify"
    /\ lock[1] = {}
    /\ queue[1] = <<1, 2>>
    /\ sval[1] = 2

\* C12 (signal semantics): a send returns only through its one signal, made
\* after its append; the signal takes one sleeper off the condition variable
\* when there is one and otherwise changes nothing but the sender's
\* position; a receive goes to the wait only from a check that found the
\* queue empty, and a check that finds a value returns it.
SignalState ==
    \A k \in Pairs : spc[k] = "notify" => Len(sent[k]) = nsend

SignalStep ==
    \A k \in Pairs :
        LET a == sender[k].inner IN
        /\ (spc'[k] = "idle" /\ spc[k] # "idle") => spc[k] = "notify"
        /\ (spc[k] = "notify" /\ spc'[k] # "notify") =>
              /\ spc'[k] = "idle"
              /\ UNCHANGED <<queue, lock, poisoned, handles, sval, rpc, sent,
                             received, rcall, nsend, nrecv, nspurious>>
              /\ IF available[a] = {}
                 THEN available' = available
                 ELSE \E w \in available[a] :
                          available' = [available EXCEPT ![a] = @ \ {w}]
        /\ (rpc'[k] = "wait" /\ rpc[k] # "wait") =>
              (rpc[k] = "check" /\ queue[a] = << >>)
        /\ (rpc[k] = "check" /\ queue[a] # << >> /\ rpc'[k] # "check") =>
              /\ rpc'[k] = "idle"
              /\ received'[k] = Append(received[k], Head(queue[a]))

\* C12: the signal and the check before the wait, in every state and step.
SignalSemantics == [](SignalState) /\ [][SignalStep]_vars

\* The only send signalled and returned while no receive was in progress; the
\* receive issued afterwards, never woken, returned the queued value.
SignalSemanticsWitness ==
    /\ nsend = 1 /\ spc[1] = "idle"
    /\ nrecv = 1 /\ rpc[1] = "idle"
    /\ rcall[1].quiet /\ rcall[1].sent = 1
    /\ nspurious = 0
    /\ received[1] = <<1>>

\* C13 (lock released on every exit path): a thread whose send or receive
\* has returned or aborted does not hold the lock, and the lock is free
\* whenever no send and no receive is in progress.
LockReleasedOnExit ==
    /\ \A k \in Pairs :
        /\ spc[k] \in {"idle", "aborted"} => S(k) \notin lock[sender[k].inner]
        /\ rpc[k] \in {"idle", "aborted"} => R(k) \notin lock[receiver[k].inner]
    /\ (\A k \in Pairs : spc[k] \in {"idle", "aborted"} /\ rpc[k] \in {"idle", "aborted"})
          => \A a \in DOMAIN lock : lock[a] = {}

\* A send and a receive have returned, a later send panicked under the guard
\* and a later receive was aborted: nothing is in progress.
LockReleasedOnExitWitness ==
    /\ received[1] = <<1>>
    /\ poisoned[1]
    /\ spc[1] = "aborted"
    /\ rpc[1] = "aborted"

\* C14 (frame of the queue updates): a step changes a queue only as a send's
\* push, which adds the sent value after the elements already there, these
\* unchanged and in place, or as a receive's successful check, which takes
\* the first element away and keeps the others in order; a step of a send's
\* push does the former, and a check of an empty queue changes no queue.
PushedAtTail(q, qn, v) ==
    /\ Len(qn) = Len(q) + 1
    /\ \A i \in 1..Len(q) : qn[i] = q[i]
    /\ qn[Len(qn)] = v

HeadRemoved(q, qn) ==
    /\ Len(q) > 0
    /\ Len(qn) = Len(q) - 1
    /\ \A i \in 1..Len(qn) : qn[i] = q[i + 1]

QueueFrameStep ==
    /\ \A a \in DOMAIN queue :
        \/ queue'[a] = queue[a]
        \/ \E k \in Pairs :
              /\ sender[k].inner = a /\ spc[k] = "push" /\ spc'[k] = "drop"
              /\ PushedAtTail(queue[a], queue'[a], sval[k])
        \/ \E k \in Pairs :
              /\ receiver[k].inner = a /\ rpc[k] = "check" /\ rpc'[k] = "idle"
              /\ HeadRemoved(queue[a], queue'[a])
              /\ received'[k] = Append(received[k], queue[a][1])
    /\ \A k \in Pairs :
        /\ (spc[k] = "push" /\ spc'[k] # "push") =>
              PushedAtTail(queue[sender[k].inner], queue'[sender[k].inner], sval[k])
        /\ (rpc[k] = "check" /\ queue[receiver[k].inner] = << >>) => queue' = queue
        /\ (rpc[k] = "check" /\ queue[receiver[k].inner] # << >> /\ rpc'[k] # "check") =>
              HeadRemoved(queue[receiver[k].inner], queue'[receiver[k].inner])

\* C14: every step keeps the frame.
QueueFrame == [][QueueFrameStep]_vars

\* A value was pushed behind two others and the first of the three was then
\* received, the other two left in order.
QueueFrameWitness ==
    /\ sent[1] = <<1, 2, 1>>
    /\ received[1] = <<1>>
    /\ queue[1] = <<2, 1>>
    /\ rcall[1].sent = 3

\* C19 (wait invariant): while a receiver is asleep on the condition variable
\* and no send on its channel is between its append and its signal, the
\* queue is empty.
SignalPending(a) ==
    \E j \in Pairs : sender[j].inner = a /\ spc[j] \in {"drop", "notify"}

WaitInvariant ==
    \A k \in Pairs :
        (Asleep(k) /\ ~SignalPending(receiver[k].inner))
            => queue[receiver[k].inner] = << >>

\* The receiver, in its second receive, is asleep while a value is queued
\* and the send that appended it has released the lock and not yet signalled.
WaitInvariantWitness ==
    /\ Asleep(1)
    /\ nrecv = 2
    /\ queue[1] # << >>
    /\ spc[1] = "notify"

\* C20 (deadlock freedom): while a send is in progress some thread can take
\* a step; and when no thread inside send or receive can take a step, every
\* send has returned and the receiver is idle or asleep on an empty queue.
Stuck ==
    \A k \in Pairs : ~ENABLED SenderStep(k) /\ ~ENABLED ReceiverStep(k)

DeadlockFreedom ==
    /\ (\E k \in Pairs : spc[k] # "idle") => ~Stuck
    /\ Stuck => \A k \in Pairs :
                    /\ spc[k] = "idle"
                    /\ Len(sent[k]) = nsend
                    /\ \/ rpc[k] = "idle"
                       \/ Asleep(k) /\ queue[receiver[k].inner] = << >>

\* Every send issued has returned, every value was received, and the
\* receiver is blocked in a further receive: no thread can step.
DeadlockFreedomWitness ==
    /\ Stuck
    /\ nsend = 2 /\ spc[1] = "idle"
    /\ received[1] = sent[1]
    /\ Asleep(1)

\* C18 (signalling under the lock): were send to signal before releasing the
\* lock, a receiver woken while the sender still holds it could not go on
\* until the release, yet under fair scheduling every send would return and
\* every receive in progress with a value queued would return: no deadlock.
WokenUnderLock(k) ==
    /\ rpc[k] = "waiting"
    /\ R(k) \notin available[receiver[k].inner]
    /\ lock[receiver[k].inner] # {}

Project(s, p) == SelectSeq(s, LAMBDA v : v[1] = p)

\* C15 (multi-producer extension): with several threads calling send on
\* one channel, at most one of them is between its lock() and its
\* drop(queue) and it holds the mutex alone; every value appended stands
\* exactly once, whole, in what was received followed by what is queued;
\* and the values of any one producer stand there in the order that
\* producer appended them, so the received sequence is an interleaving of
\* the producers' sequences.
MultiProducer ==
    \A r \in Receivers :
        LET a == receiver[r].inner
            producers == {p \in Pairs : sender[p].inner = a}
            appending == {p \in producers : spc[p] \in {"push", "drop"}}
            all == received[r] \o queue[a]
        IN  /\ Cardinality(lock[a]) <= 1
            /\ Cardinality(appending) <= 1
            /\ \A p \in appending : lock[a] = {S(p)}
            /\ \A i \in 1..Len(all) : all[i][1] \in producers
            /\ \A i, j \in 1..Len(all) : all[i] = all[j] => i = j
            /\ \A p \in producers : Project(all, p) = sent[p]

\* Two producers race: producer 2 has appended its second value and still
\* holds the mutex while producer 1 waits for the mutex with its second,
\* and the first values of both have been received, producer 2's first.
MultiProducerWitness ==
    /\ Len(sender) = 2
    /\ spc[1] = "lock" /\ spc[2] = "drop"
    /\ received[1] = << <<2, 1>>, <<1, 1>> >>
    /\ queue[1] = << <<2, 2>> >>

\* ------------------------------------------------------------------- C16
\* No send through the Sender of pair k will append any more: it is in no
\* call, and it is destroyed or has made all the calls of the run.
NoFurtherSend(k) ==
    /\ spc[k] = "idle"
    /\ Dropped(S(k)) \/ nsend = budget.sends

\* A receive through pair k is pending on an empty queue that no send will
\* fill.
PendingOnEmpty(k) ==
    /\ InReceive(k)
    /\ queue[receiver[k].inner] = << >>
    /\ NoFurtherSend(k)

NoDisconnectStep ==
    \A k \in Receivers :
        PendingOnEmpty(k) =>
            /\ rpc'[k] \in {"lock", "check", "wait", "waiting"}
            /\ received'[k] = received[k]
            /\ queue'[receiver[k].inner] = << >>
            /\ spc'[k] = "idle"
            /\ Dropped(S(k)) => \E d \in dropped' : d.handle = S(k)
            /\ nsend' = nsend

\* C16 (no disconnect detection): a receive pending on an empty queue, with
\* no send to come (the Sender destroyed, or never calling again), is after
\* every step still inside receive with the queue empty and no send to
\* come, and has been handed nothing: it never returns, with a value, an
\* error or a closed/empty result.
NoDisconnect == [][NoDisconnectStep]_vars

\* The Sender was destroyed; the receive, asleep on the empty queue, has
\* since woken spuriously, found the queue empty and gone back to sleep.
NoDisconnectWitness ==
    /\ Asleep(1)
    /\ queue[1] = << >>
    /\ \E d \in dropped : d.handle = S(1) /\ d.nrecv = nrecv
                          /\ d.nspurious < nspurious

\* ------------------------------------------------------------------- C17
\* The handles on Inner a that are alive.
Live(a) ==
    {S(k) : k \in {p \in Pairs : sender[p].inner = a /\ ~Dropped(S(p))}}
    \cup {R(k) : k \in {r \in Receivers : receiver[r].inner = a /\ ~Dropped(R(r))}}

LifetimeState ==
    /\ \A a \in DOMAIN queue :
        /\ strong[a] = Cardinality(Live(a))
        /\ strong[a] > 0 =>
            \A k \in Receivers :
                receiver[k].inner = a => sent[k] = received[k] \o queue[a]
    /\ \A k \in Pairs :
        (Dropped(R(k)) /\ ~Dropped(S(k))) =>
            /\ spc[k] # "idle" => ENABLED SenderStep(k)
            /\ (spc[k] = "idle" /\ nsend < budget.sends) =>
                   \A t \in Values : ENABLED SendCall(k, t)

LifetimeStep ==
    /\ \A a \in DOMAIN queue :
        /\ queue'[a] # queue[a] =>
            \/ \E t \in Values : queue'[a] = Append(queue[a], t)
            \/ queue[a] # << >> /\ queue'[a] = Tail(queue[a])
            \/ strong[a] = 1 /\ strong'[a] = 0
        /\ (strong[a] > 0 /\ strong'[a] = 0) => queue'[a] = << >>
    /\ \A k \in Pairs :
        LET a == sender[k].inner IN
        /\ (~Dropped(S(k)) /\ (\E d \in dropped' : d.handle = S(k))
              /\ ~Dropped(R(k))) => queue'[a] = queue[a]
        /\ (Dropped(S(k)) /\ received'[k] # received[k]) =>
              /\ queue[a] # << >>
              /\ received'[k] = Append(received[k], Head(queue[a]))
              /\ queue'[a] = Tail(queue[a])
        /\ (Dropped(R(k)) /\ spc[k] = "push") =>
              (spc'[k] = "push" \/ queue'[a] = Append(queue[a], sval[k]))

\* C17 (shared-state lifetime): the Arc counts the handles alive, and while
\* it counts at least one the queue holds exactly the values sent and not
\* yet received; the queue changes only by a push at the tail or a pop at
\* the head, and is discarded in the step that destroys the last handle.
\* Destroying the Sender while the Receiver lives leaves the queue as it
\* is, and later receives take its values from the head, in order.  With
\* the Receiver destroyed a send can still be issued, every step of a send
\* in progress can be taken, and its push appends the value.
Lifetime == [](LifetimeState) /\ [][LifetimeStep]_vars

\* The Sender was destroyed before the Receiver made any call, with two
\* values queued; both were then received, in the order sent.
LifetimeWitness ==
    /\ received[1] = <<1, 2>>
    /\ \E d \in dropped : d.handle = S(1) /\ d.nrecv = 0

=============================================================================
